---- MODULE Spec2Model ----
EXTENDS Integers, Sequences, FiniteSets, TLC

(***************************************************************************)
(* Restaurant opening-hours status (utils/timeUtils) and the React hook    *)
(* useRestaurantStatus that polls it once a minute.                        *)
(*                                                                         *)
(* A JavaScript string is a sequence of one-character strings, so that     *)
(* split, trim, Number, toString and padStart are computed on characters.  *)
(* A JavaScript number is a record [nan, v]: v is the integer value and    *)
(* nan marks NaN.  An optional value is a record [def, s].                 *)
(***************************************************************************)

VARIABLES
  hoursString,   \* the hoursString argument / prop (a string)
  clock,         \* system clock, new Date().getTime() in ms
  tz,            \* host timezone offset in minutes east of UTC
  result,        \* outcome of the last getRestaurantStatus call
  phase,         \* hook life cycle: "idle", "mounted", "unmounted",
                 \* "renderThrew" (first render threw), "effectThrew"
  status,        \* the useState cell [from, value]
  returned,      \* what the last render returned: [prop, from, value]
  effectDeps,    \* hoursString of the last effect run (dependency array)
  effectPending, \* a committed render whose effect has not run yet
  timers,        \* every interval created: [src, live, nextFire, cleared, fired]
  cleanup,       \* the interval the registered effect cleanup clears, 0 if none
  evals,         \* number of getRestaurantStatus calls of the hook
  pubs,          \* number of setStatus calls
  fires,         \* number of interval callbacks run
  steps          \* elapsed time steps

vars == <<hoursString, clock, tz, result, phase, status, returned, effectDeps,
          effectPending, timers, cleanup, evals, pubs, fires, steps>>

----------------------------------------------------------------------------
(* Program constants *)

MinutesPerHour == 60
MinutesPerDay == 1440
ClosingSoonMinutes == 30
MsPerMinute == 60000
MsPerHour == 3600000
MsPerDay == 86400000
MoroccoOffsetMs == 3600000
IntervalMs == 60000

----------------------------------------------------------------------------
(* JavaScript values *)

Num(n) == [nan |-> FALSE, v |-> n]
NaN == [nan |-> TRUE, v |-> 0]
Str(s) == [def |-> TRUE, s |-> s]
Undefined == [def |-> FALSE, s |-> <<>>]

DigitChars == <<"0", "1", "2", "3", "4", "5", "6", "7", "8", "9">>
IsDigit(c) == \E i \in 1..10 : DigitChars[i] = c
DigitVal(c) == (CHOOSE i \in 1..10 : DigitChars[i] = c) - 1

\* a < b and a >= b on numbers: every comparison with NaN is false
JsLt(a, b) == ~a.nan /\ ~b.nan /\ a.v < b.v
JsGe(a, b) == ~a.nan /\ ~b.nan /\ a.v >= b.v
JsLe(a, b) == ~a.nan /\ ~b.nan /\ a.v <= b.v
JsAdd(a, b) == IF a.nan \/ b.nan THEN NaN ELSE Num(a.v + b.v)
JsSub(a, b) == IF a.nan \/ b.nan THEN NaN ELSE Num(a.v - b.v)
JsMul(a, b) == IF a.nan \/ b.nan THEN NaN ELSE Num(a.v * b.v)
\* Math.floor(a / b), b > 0
JsFloorDiv(a, b) == IF a.nan THEN NaN ELSE Num(a.v \div b)
\* a % b, b > 0: the remainder takes the sign of the dividend
JsRem(a, b) ==
  IF a.nan THEN NaN
  ELSE IF a.v >= 0 THEN Num(a.v % b) ELSE Num(-((-a.v) % b))

\* String.prototype.indexOf(sep), 1-based, 0 when absent
IndexOf(s, sep) ==
  LET hits == {i \in 1..(Len(s) - Len(sep) + 1) :
                 SubSeq(s, i, i + Len(sep) - 1) = sep}
  IN IF hits = {} THEN 0 ELSE CHOOSE i \in hits : \A j \in hits : i <= j

\* String.prototype.split(sep) for a non-empty separator
RECURSIVE Split(_, _)
Split(s, sep) ==
  LET i == IndexOf(s, sep)
  IN IF i = 0 THEN <<s>>
     ELSE <<SubSeq(s, 1, i - 1)>> \o Split(SubSeq(s, i + Len(sep), Len(s)), sep)

\* String.prototype.trim()
RECURSIVE Trim(_)
Trim(s) ==
  IF s = <<>> THEN s
  ELSE IF Head(s) = " " THEN Trim(Tail(s))
  ELSE IF s[Len(s)] = " " THEN Trim(SubSeq(s, 1, Len(s) - 1))
  ELSE s

\* array[i] (1-based): undefined past the end
Elem(parts, i) == IF i <= Len(parts) THEN Str(parts[i]) ELSE Undefined

RECURSIVE DigitsValue(_)
DigitsValue(s) ==
  IF s = <<>> THEN 0
  ELSE DigitsValue(SubSeq(s, 1, Len(s) - 1)) * 10 + DigitVal(s[Len(s)])

AllDigits(s) == s # <<>> /\ \A i \in 1..Len(s) : IsDigit(s[i])

\* Number(x) for x a string over digits, ":", " ", "-" and letters, or undefined
Number(x) ==
  IF ~x.def THEN NaN
  ELSE LET t == Trim(x.s)
       IN IF t = <<>> THEN Num(0)
          ELSE IF AllDigits(t) THEN Num(DigitsValue(t))
          ELSE IF Head(t) = "-" /\ AllDigits(Tail(t)) THEN Num(-DigitsValue(Tail(t)))
          ELSE NaN

RECURSIVE NatToString(_)
NatToString(n) ==
  IF n < 10 THEN <<DigitChars[n + 1]>>
  ELSE NatToString(n \div 10) \o <<DigitChars[(n % 10) + 1]>>

\* Number.prototype.toString()
NumToString(a) ==
  IF a.nan THEN <<"N", "a", "N">>
  ELSE IF a.v < 0 THEN <<"-">> \o NatToString(-a.v)
  ELSE NatToString(a.v)

\* s.padStart(2, '0')
PadStart2(s) == IF Len(s) >= 2 THEN s ELSE IF Len(s) = 1 THEN <<"0">> \o s ELSE <<"0", "0">>

----------------------------------------------------------------------------
(* timeUtils *)

\* parseRestaurantHours: const [open, close] = split(' - ').map(trim)
parseRestaurantHours(h) ==
  LET parts == Split(h, <<" ", "-", " ">>)
      trimmed == [i \in 1..Len(parts) |-> Trim(parts[i])]
  IN [open |-> Elem(trimmed, 1), close |-> Elem(trimmed, 2)]

\* timeToMinutes: [threw, v]; undefined.split throws a TypeError
timeToMinutes(timeString) ==
  IF ~timeString.def THEN [threw |-> TRUE, v |-> NaN]
  ELSE LET parts == Split(timeString.s, <<":">>)
           hours == Number(Elem(parts, 1))
           minutes == Number(Elem(parts, 2))
       IN [threw |-> FALSE,
           v |-> JsAdd(JsMul(hours, Num(MinutesPerHour)), minutes)]

minutesToTime(minutes) ==
  LET hours == JsFloorDiv(minutes, MinutesPerHour)
      mins == JsRem(minutes, MinutesPerHour)
  IN PadStart2(NumToString(hours)) \o <<":">> \o PadStart2(NumToString(mins))

formatTimeUntil(minutes) ==
  IF JsLt(minutes, Num(MinutesPerHour))
  THEN NumToString(minutes) \o <<" min">>
  ELSE LET hours == JsFloorDiv(minutes, MinutesPerHour)
           remainingMinutes == JsRem(minutes, MinutesPerHour)
       IN IF remainingMinutes = Num(0)
          THEN NumToString(hours) \o <<"h">>
          ELSE NumToString(hours) \o <<"h">> \o PadStart2(NumToString(remainingMinutes))

\* getCurrentMoroccoTime: the instant of the returned Date, in ms
getCurrentMoroccoTime(now) == now + MoroccoOffsetMs

\* Date.prototype.getHours / getMinutes: fields of the HOST's local time
getHours(t, off) == ((t + off * MsPerMinute) % MsPerDay) \div MsPerHour
getMinutes(t, off) == ((t + off * MsPerMinute) % MsPerHour) \div MsPerMinute

\* currentMinutes of getRestaurantStatus
currentMinutesAt(now, off) ==
  LET t == getCurrentMoroccoTime(now)
  IN getHours(t, off) * MinutesPerHour + getMinutes(t, off)

NoStatus ==
  [isOpen |-> FALSE, status |-> "none", message |-> <<>>,
   nextOpenTime |-> Undefined, timeUntilClose |-> Undefined]

\* OpenStatus with the threshold test written < instead of <=
OpenStatusStrict(closeMinutes, minutesUntilClose) ==
  LET isClosingSoon == JsLt(minutesUntilClose, Num(ClosingSoonMinutes))
  IN [isOpen |-> TRUE,
      status |-> IF isClosingSoon THEN "closing_soon" ELSE "open",
      message |-> IF isClosingSoon
                  THEN <<"Ferme bientot (">> \o minutesToTime(closeMinutes) \o <<")">>
                  ELSE <<"Ouvert jusqu'a ">> \o minutesToTime(closeMinutes),
      nextOpenTime |-> Undefined,
      timeUntilClose |-> Str(formatTimeUntil(minutesUntilClose))]

\* the object returned by the three open branches
OpenStatus(closeMinutes, minutesUntilClose) ==
  LET isClosingSoon == JsLe(minutesUntilClose, Num(ClosingSoonMinutes))
  IN [isOpen |-> TRUE,
      status |-> IF isClosingSoon THEN "closing_soon" ELSE "open",
      message |-> IF isClosingSoon
                  THEN <<"Ferme bientot (">> \o minutesToTime(closeMinutes) \o <<")">>
                  ELSE <<"Ouvert jusqu'a ">> \o minutesToTime(closeMinutes),
      nextOpenTime |-> Undefined,
      timeUntilClose |-> Str(formatTimeUntil(minutesUntilClose))]

ClosedStatus(openMinutes, prefix) ==
  [isOpen |-> FALSE, status |-> "closed",
   message |-> <<prefix>> \o minutesToTime(openMinutes),
   nextOpenTime |-> Str(minutesToTime(openMinutes)),
   timeUntilClose |-> Undefined]

\* OvernightStatus with the closing minute itself counted as open
OvernightStatusInclusive(openMinutes, closeMinutes, currentMinutes) ==
  IF JsLe(currentMinutes, closeMinutes)
  THEN OpenStatus(closeMinutes, JsSub(closeMinutes, currentMinutes))
  ELSE IF JsGe(currentMinutes, openMinutes)
  THEN LET minutesUntilMidnight == JsSub(Num(MinutesPerDay), currentMinutes)
       IN OpenStatus(closeMinutes, JsAdd(minutesUntilMidnight, closeMinutes))
  ELSE ClosedStatus(openMinutes, "Ferme - Ouvre a ")

\* OvernightStatus with the evening countdown stopping at midnight
OvernightStatusNoWrap(openMinutes, closeMinutes, currentMinutes) ==
  IF JsLt(currentMinutes, closeMinutes)
  THEN OpenStatus(closeMinutes, JsSub(closeMinutes, currentMinutes))
  ELSE IF JsGe(currentMinutes, openMinutes)
  THEN LET minutesUntilMidnight == JsSub(Num(MinutesPerDay), currentMinutes)
       IN OpenStatus(closeMinutes, minutesUntilMidnight)
  ELSE ClosedStatus(openMinutes, "Ferme - Ouvre a ")

\* the overnight branch: closeMinutes < openMinutes
OvernightStatus(openMinutes, closeMinutes, currentMinutes) ==
  IF JsLt(currentMinutes, closeMinutes)
  THEN OpenStatus(closeMinutes, JsSub(closeMinutes, currentMinutes))
  ELSE IF JsGe(currentMinutes, openMinutes)
  THEN LET minutesUntilMidnight == JsSub(Num(MinutesPerDay), currentMinutes)
       IN OpenStatus(closeMinutes, JsAdd(minutesUntilMidnight, closeMinutes))
  ELSE ClosedStatus(openMinutes, "Ferme - Ouvre a ")

\* the same-day branch
SameDayStatus(openMinutes, closeMinutes, currentMinutes) ==
  IF JsGe(currentMinutes, openMinutes) /\ JsLt(currentMinutes, closeMinutes)
  THEN OpenStatus(closeMinutes, JsSub(closeMinutes, currentMinutes))
  ELSE IF JsLt(currentMinutes, openMinutes)
  THEN ClosedStatus(openMinutes, "Ferme - Ouvre a ")
  ELSE ClosedStatus(openMinutes, "Ferme - Ouvre demain a ")

\* getRestaurantStatus(hoursString) read at clock instant now on a host at
\* offset off: [threw, value]
getRestaurantStatus(h, now, off) ==
  LET hours == parseRestaurantHours(h)
      currentMinutes == Num(currentMinutesAt(now, off))
      o == timeToMinutes(hours.open)
      c == timeToMinutes(hours.close)
  IN IF o.threw \/ c.threw THEN [threw |-> TRUE, value |-> NoStatus]
     ELSE LET isOvernight == JsLt(c.v, o.v)
          IN [threw |-> FALSE,
              value |-> IF isOvernight
                        THEN OvernightStatus(o.v, c.v, currentMinutes)
                        ELSE SameDayStatus(o.v, c.v, currentMinutes)]

----------------------------------------------------------------------------
(* Inputs *)

Sep == <<" ", "-", " ">>

\* "HH:MM" of a minute of the day, written digit by digit
TwoDigits(n) == <<DigitChars[(n \div 10) + 1], DigitChars[(n % 10) + 1]>>
HHMM(m) == TwoDigits(m \div 60) \o <<":">> \o TwoDigits(m % 60)

OpenSamples == {0, 540, 720, 1409, 1439}
CloseSamples == {0, 15, 540, 1080, 1439}

WellFormedHours == {HHMM(o) \o Sep \o HHMM(c) : o \in OpenSamples, c \in CloseSamples}

OtherHours ==
  { <<"1", "2", ":", "0", "0">>,                                  \* no separator
    <<"1", "2", ":", "0", "0", "-", "0", "0", ":", "1", "5">>,    \* no blanks
    <<"a", "b", ":", "c", "d">> \o Sep \o HHMM(600),              \* not numeric
    HHMM(540) \o Sep \o <<"1", "a", ":", "0", "0">>,              \* not numeric
    <<"0", "9", "0", "0">> \o Sep \o <<"1", "8", "0", "0">>,      \* no colon
    <<"9", ":", "0", "0">> \o Sep \o HHMM(1080),                  \* not padded
    <<" ">> \o HHMM(540) \o <<" ">> \o Sep \o <<" ">> \o HHMM(1080),  \* blanks
    <<"2", "5", ":", "0", "0">> \o Sep \o <<"2", "6", ":", "0", "0">>,
    <<"-", "1", ":", "0", "0">> \o Sep \o HHMM(120),
    HHMM(540) \o Sep \o HHMM(1080) \o Sep \o HHMM(1200) }

HoursStrings == WellFormedHours \cup OtherHours

\* the second day after the epoch, every minute of it, at two sub-minute phases
SubMinuteMs == {0, 59999}
DayMinutes == 0..(MinutesPerDay - 1)
ClockInstants == {MsPerDay + m * MsPerMinute + ms : m \in DayMinutes, ms \in SubMinuteMs}
HostOffsets == {-300, 0, 60}

NotEvaluated == [done |-> FALSE, threw |-> FALSE, value |-> NoStatus]

----------------------------------------------------------------------------
(* The evaluator on its own: one call of getRestaurantStatus per behaviour *)

InitHook ==
  /\ phase = "idle"
  /\ status = [from |-> <<>>, value |-> NoStatus]
  /\ returned = [prop |-> <<>>, from |-> <<>>, value |-> NoStatus]
  /\ effectDeps = <<>>
  /\ effectPending = FALSE
  /\ timers = <<>>
  /\ cleanup = 0
  /\ evals = 0
  /\ pubs = 0
  /\ fires = 0
  /\ steps = 0

InitEval ==
  /\ hoursString \in HoursStrings
  /\ clock \in ClockInstants
  /\ tz \in HostOffsets
  /\ result = NotEvaluated
  /\ InitHook

Evaluate ==
  /\ ~result.done
  /\ LET r == getRestaurantStatus(hoursString, clock, tz)
     IN result' = [done |-> TRUE, threw |-> r.threw, value |-> r.value]
  /\ UNCHANGED <<hoursString, clock, tz, phase, status, returned, effectDeps,
                 effectPending, timers, cleanup, evals, pubs, fires, steps>>

NextEval == Evaluate

SpecEval == InitEval /\ [][NextEval]_vars

----------------------------------------------------------------------------
(* useRestaurantStatus: the hook under React's render / effect life cycle *)

MaxSteps == 5
MaxTimers == 3

\* half of the interval: the grain at which time passes
TimeStepMs == IntervalMs \div 2

\* sources the hook is rendered with: same-day, overnight, no separator,
\* not numeric
Sources ==
  { HHMM(540) \o Sep \o HHMM(1080),
    HHMM(720) \o Sep \o HHMM(15),
    <<"1", "2", ":", "0", "0">>,
    <<"a", "b", ":", "c", "d">> \o Sep \o HHMM(600) }

\* 16:59:30, 23:29:00 and 23:58:30 UTC of the second day after the epoch
StartInstants == {MsPerDay + 61170000, MsPerDay + 84540000, MsPerDay + 86310000}
PollerOffsets == {0, 60}

\* setInterval(updateStatus, 60000) called at instant now by the effect of h
setInterval(ts, h, now) ==
  Append(ts, [src |-> h, live |-> TRUE, nextFire |-> now + IntervalMs,
              cleared |-> 0, fired |-> 0])

\* clearInterval that cancels nothing
clearIntervalNoop(ts, id) == ts

\* clearInterval(interval)
clearInterval(ts, id) ==
  IF id = 0 THEN ts
  ELSE [ts EXCEPT ![id].live = FALSE, ![id].cleared = @ + 1]

Init ==
  /\ hoursString \in Sources
  /\ clock \in StartInstants
  /\ tz \in PollerOffsets
  /\ result = NotEvaluated
  /\ InitHook

\* first render: useState(() => getRestaurantStatus(hoursString))
Mount ==
  /\ phase = "idle"
  /\ LET r == getRestaurantStatus(hoursString, clock, tz)
     IN /\ evals' = evals + 1
        /\ IF r.threw
           THEN /\ phase' = "renderThrew"
                /\ UNCHANGED <<status, returned, effectPending>>
           ELSE /\ phase' = "mounted"
                /\ status' = [from |-> hoursString, value |-> r.value]
                /\ returned' = [prop |-> hoursString, from |-> hoursString,
                                value |-> r.value]
                /\ effectPending' = TRUE
  /\ UNCHANGED <<hoursString, clock, tz, result, effectDeps, timers, cleanup,
                 pubs, fires, steps>>

\* the effect without its immediate updateStatus() call
RunEffectNoImmediate ==
  /\ phase = "mounted"
  /\ effectPending
  /\ effectPending' = FALSE
  /\ timers' = setInterval(clearInterval(timers, cleanup), hoursString, clock)
  /\ cleanup' = Len(timers) + 1
  /\ effectDeps' = hoursString
  /\ UNCHANGED <<hoursString, clock, tz, result, phase, status, returned,
                 evals, pubs, fires, steps>>

\* the effect returning no cleanup function
RunEffectNoCleanup ==
  /\ phase = "mounted"
  /\ effectPending
  /\ LET r == getRestaurantStatus(hoursString, clock, tz)
     IN /\ evals' = evals + 1
        /\ effectPending' = FALSE
        /\ IF r.threw
           THEN /\ phase' = "effectThrew"
                /\ UNCHANGED <<status, pubs, effectDeps, timers>>
           ELSE /\ status' = [from |-> hoursString, value |-> r.value]
                /\ pubs' = pubs + 1
                /\ timers' = setInterval(timers, hoursString, clock)
                /\ effectDeps' = hoursString
                /\ UNCHANGED phase
  /\ UNCHANGED <<hoursString, clock, tz, result, returned, cleanup, fires, steps>>

\* the effect: the previous cleanup, then updateStatus(), then setInterval
RunEffect ==
  /\ phase = "mounted"
  /\ effectPending
  /\ LET cleared == clearInterval(timers, cleanup)
         r == getRestaurantStatus(hoursString, clock, tz)
     IN /\ evals' = evals + 1
        /\ effectPending' = FALSE
        /\ IF r.threw
           THEN /\ phase' = "effectThrew"
                /\ timers' = cleared
                /\ cleanup' = 0
                /\ UNCHANGED <<status, pubs, effectDeps>>
           ELSE /\ status' = [from |-> hoursString, value |-> r.value]
                /\ pubs' = pubs + 1
                /\ timers' = setInterval(cleared, hoursString, clock)
                /\ cleanup' = Len(timers) + 1
                /\ effectDeps' = hoursString
                /\ UNCHANGED phase
  /\ UNCHANGED <<hoursString, clock, tz, result, returned, fires, steps>>

\* a later render, with prop h: returns the state cell, schedules the effect
\* when the dependency changed
Rerender(h) ==
  /\ phase = "mounted"
  /\ ~effectPending
  /\ h # hoursString => Len(timers) < MaxTimers
  /\ hoursString' = h
  /\ returned' = [prop |-> h, from |-> status.from, value |-> status.value]
  /\ effectPending' = (h # effectDeps)
  /\ UNCHANGED <<clock, tz, result, phase, status, effectDeps, timers, cleanup,
                 evals, pubs, fires, steps>>

\* unmount: the registered cleanup runs
Unmount ==
  /\ phase = "mounted"
  /\ phase' = "unmounted"
  /\ timers' = clearInterval(timers, cleanup)
  /\ cleanup' = 0
  /\ effectPending' = FALSE
  /\ UNCHANGED <<hoursString, clock, tz, result, status, returned, effectDeps,
                 evals, pubs, fires, steps>>

\* the intervals whose callback the event loop runs when the clock reaches now
Due(ts, now) == {i \in 1..Len(ts) : ts[i].live /\ ts[i].nextFire <= now}

\* updateStatus of interval i: its closure's hoursString, evaluated at now
TickResult(ts, i, now, off) == getRestaurantStatus(ts[i].src, now, off)

\* time passes; every due interval callback runs updateStatus
Advance ==
  /\ steps < MaxSteps
  /\ steps' = steps + 1
  /\ clock' = clock + TimeStepMs
  /\ LET due == Due(timers, clock')
         ok == {i \in due : ~TickResult(timers, i, clock', tz).threw}
     IN /\ timers' = [i \in 1..Len(timers) |->
                        IF i \in due
                        THEN [timers[i] EXCEPT !.nextFire = @ + IntervalMs,
                                               !.fired = @ + 1]
                        ELSE timers[i]]
        /\ evals' = evals + Cardinality(due)
        /\ fires' = fires + Cardinality(due)
        /\ pubs' = pubs + Cardinality(ok)
        /\ IF ok = {}
           THEN UNCHANGED status
           ELSE LET last == CHOOSE i \in ok : \A j \in ok : j <= i
                IN status' = [from |-> timers[last].src,
                              value |-> TickResult(timers, last, clock', tz).value]
  /\ UNCHANGED <<hoursString, tz, result, phase, returned, effectDeps,
                 effectPending, cleanup>>

Next ==
  \/ Mount
  \/ RunEffect
  \/ \E h \in Sources : Rerender(h)
  \/ Unmount
  \/ Advance

Spec == Init /\ [][Next]_vars

----------------------------------------------------------------------------
(* Properties of getRestaurantStatus, checked under SpecEval *)

Hours == parseRestaurantHours(hoursString)
OpenT == timeToMinutes(Hours.open)
CloseT == timeToMinutes(Hours.close)
NowM == currentMinutesAt(clock, tz)
Numeric == ~OpenT.threw /\ ~CloseT.threw /\ ~OpenT.v.nan /\ ~CloseT.v.nan
InDay(x) == ~x.nan /\ x.v \in DayMinutes
InRange == ~OpenT.threw /\ ~CloseT.threw /\ InDay(OpenT.v) /\ InDay(CloseT.v)

\* the interval of the claims: same day, or across midnight
InsideInterval(o, c, n) ==
  \/ c >= o /\ o <= n /\ n < c
  \/ c < o /\ (n < c \/ n >= o)

\* minutes until close as the specification gives them, branch by branch
ExpectedUntilClose(o, c, n) ==
  IF c < o /\ n >= c THEN (MinutesPerDay - n) + c ELSE c - n

\* C1: with open and close minutes in [0,1439], isOpen is true exactly when now
\* lies in the same-day interval [open, close) or in the overnight interval
\* (now < close or now >= open); otherwise the result is closed with
\* nextOpenTime the open time.
C1_OpenExactlyInsideInterval ==
  (result.done /\ InRange) =>
    LET o == OpenT.v.v
        c == CloseT.v.v
    IN /\ ~result.threw
       /\ result.value.isOpen = InsideInterval(o, c, NowM)
       /\ ~InsideInterval(o, c, NowM) =>
            /\ result.value.status = "closed"
            /\ result.value.nextOpenTime = Str(HHMM(o))

\* an overnight interval evaluated between close and open, and found closed
C1_Witness ==
  /\ result.done /\ InRange
  /\ CloseT.v.v < OpenT.v.v
  /\ CloseT.v.v <= NowM /\ NowM < OpenT.v.v
  /\ ~result.value.isOpen
  /\ result.value.nextOpenTime = Str(HHMM(OpenT.v.v))

\* C2: when open, the formatted countdown is close - now (same day and past
\* midnight) or (1440 - now) + close (evening of an overnight interval); it is
\* the forward distance from now to close and lies in [1,1439].
C2_MinutesUntilClose ==
  (result.done /\ InRange /\ ~result.threw /\ result.value.isOpen) =>
    LET o == OpenT.v.v
        c == CloseT.v.v
        x == ExpectedUntilClose(o, c, NowM)
    IN /\ result.value.timeUntilClose = Str(formatTimeUntil(Num(x)))
       /\ x = (c - NowM) % MinutesPerDay
       /\ x \in 1..(MinutesPerDay - 1)

\* open in the evening of an overnight interval, more than an hour before close
C2_Witness ==
  /\ result.done /\ InRange /\ result.value.isOpen
  /\ CloseT.v.v < OpenT.v.v
  /\ NowM >= OpenT.v.v
  /\ ExpectedUntilClose(OpenT.v.v, CloseT.v.v, NowM) > MinutesPerHour
  /\ result.value.timeUntilClose =
       Str(formatTimeUntil(Num((MinutesPerDay - NowM) + CloseT.v.v)))

\* C3: an open result is closing_soon iff minutes until close <= 30 and open
\* otherwise; a result that is not open is never closing_soon.
C3_ClosingSoonThreshold ==
  (result.done /\ ~result.threw) =>
    /\ result.value.isOpen =>
         /\ Numeric
         /\ LET x == ExpectedUntilClose(OpenT.v.v, CloseT.v.v, NowM)
            IN /\ (result.value.status = "closing_soon") = (x <= ClosingSoonMinutes)
               /\ (result.value.status = "open") = (x > ClosingSoonMinutes)
    /\ ~result.value.isOpen => result.value.status = "closed"

\* open with exactly 30 minutes left: closing_soon
C3_Witness ==
  /\ result.done /\ Numeric /\ result.value.isOpen
  /\ ExpectedUntilClose(OpenT.v.v, CloseT.v.v, NowM) = ClosingSoonMinutes
  /\ result.value.status = "closing_soon"

\* a side of the hours string is a valid "HH:MM" token: two numeric parts
ValidToken(x) ==
  /\ x.def
  /\ LET parts == Split(x.s, <<":">>)
     IN Len(parts) = 2 /\ AllDigits(parts[1]) /\ AllDigits(parts[2])

Malformed(h) ==
  \/ IndexOf(h, Sep) = 0
  \/ ~ValidToken(parseRestaurantHours(h).open)
  \/ ~ValidToken(parseRestaurantHours(h).close)

\* C8: an hours string without the " - " separator, or with a side that is not
\* a valid "HH:MM" token, makes getRestaurantStatus fail instead of returning
\* a status.
C8_MalformedHoursFail ==
  (result.done /\ Malformed(hoursString)) => result.threw

\* C9: the minute of the day compared against the interval is the wall-clock
\* minute at UTC+1, (UTC minute of day + 60) mod 1440, on every host.
C9_NowIsUtcPlusOne ==
  (result.done /\ ~result.threw) =>
    NowM = (((clock % MsPerDay) \div MsPerMinute) + MinutesPerHour) % MinutesPerDay

----------------------------------------------------------------------------
(* Properties of useRestaurantStatus, checked under Spec *)

Live == {i \in 1..Len(timers) : timers[i].live}
Throws(h) == getRestaurantStatus(h, clock, tz).threw
Torn == phase \in {"unmounted", "renderThrew", "effectThrew"}

\* C4: once the hook is unmounted nothing is evaluated or published any more,
\* and an interval that was cleared never runs its callback again.
C4_NothingAfterDeactivation ==
  [][ /\ phase = "unmounted" =>
           /\ evals' = evals /\ pubs' = pubs /\ fires' = fires
           /\ status' = status
      /\ \A i \in 1..Len(timers) :
           timers[i].cleared > 0 => timers'[i].fired = timers[i].fired
    ]_vars

\* mounted, unmounted before the first tick, and two intervals of time later
\* the only interval has never fired and the only publication is the effect's
C4_Witness ==
  /\ phase = "unmounted"
  /\ Len(timers) = 1
  /\ timers[1].fired = 0
  /\ clock >= timers[1].nextFire + IntervalMs
  /\ pubs = 1 /\ fires = 0

C6_NeverMixesSources ==
  phase = "mounted" =>
    /\ returned.from = returned.prop
    /\ ~effectPending => status.from = hoursString

\* C7: at most one interval is live, each interval is cleared at most once and
\* is live exactly until it is cleared, and after teardown every interval has
\* been cleared exactly once.
C7_OneTimerClearedOnce ==
  /\ Cardinality(Live) <= 1
  /\ \A i \in 1..Len(timers) :
       /\ timers[i].cleared <= 1
       /\ timers[i].live = (timers[i].cleared = 0)
  /\ Torn => \A i \in 1..Len(timers) : ~timers[i].live /\ timers[i].cleared = 1

\* three activations, the source changed twice before any tick, then unmounted
C7_Witness ==
  /\ phase = "unmounted"
  /\ Len(timers) = MaxTimers
  /\ \A i \in 1..Len(timers) : timers[i].cleared = 1 /\ timers[i].fired = 0
  /\ timers[1].src # timers[2].src

\* C10: a failed evaluation, the immediate one of the effect included, leaves
\* the interval armed with the next tick due within 60 seconds.
C10_FailureKeepsSchedule ==
  phase = "effectThrew" =>
    \E i \in Live : timers[i].nextFire <= clock + IntervalMs

====
